---------------------------- MODULE Spec2Model ----------------------------
(***************************************************************************)
(* A model of nc_lottery_million_monitor.py: the prize-tier data model,    *)
(* the per-game metrics, the composite score, the HOT/WATCH/AVOID rule and *)
(* the ranking done by main() and generate_html_report().                  *)
(*                                                                         *)
(* Numbers.  The program computes with Python floats.  The model computes  *)
(* with exact rationals [n, d] (d > 0, lowest terms), so every statement   *)
(* checked here is a statement about the real-number reading of the        *)
(* arithmetic; float rounding is not modelled.  Money amounts (value,      *)
(* ticket_price) are whole dollars.                                        *)
(*                                                                         *)
(* Exceptions.  A Python exception is a distinguished result that every    *)
(* later operation propagates: the rational with d = 0 (ZeroDivisionError  *)
(* and anything raised before it), the tier index -1 (ValueError of        *)
(* max()/min() on an empty list), the label "EXC".                         *)
(***************************************************************************)
EXTENDS Integers, Sequences, FiniteSets, TLC

VARIABLES
    now,            \* datetime.now(), in ticks of 1/TicksPerDay day
    game,           \* SpecGame: the GameData being evaluated
    gpc,            \* SpecGame: position of the evaluation of `game`
    metrics,        \* SpecGame: results of the metric accessors
    score,          \* SpecGame: result of calculate_composite_score(game)
    category,       \* SpecGame: result of categorize_game(game)
    all_games,      \* Spec: list returned by scrape_all_games()
    pc,             \* Spec: position in main()
    million_games,  \* Spec: main()'s million_games
    scored,         \* Spec: main()'s sorted summary list
    scored_games,   \* Spec: generate_html_report()'s sorted list
    hot_games,      \* Spec: generate_html_report()'s HOT sub-list
    watch_games,    \* Spec: generate_html_report()'s WATCH sub-list
    avoid_games,    \* Spec: generate_html_report()'s AVOID sub-list
    exit_code,      \* Spec: process exit status (-1 while running)
    site,           \* SpecScrape: what the lottery site serves
    games_in_claims, \* SpecScrape: self.games_in_claims
    spc,            \* SpecScrape: position in scrape_all_games()
    ti,             \* SpecScrape: tables of the page already looped over
    scrape_games,   \* SpecScrape: scrape_all_games()'s local list games
    processed_games, \* SpecScrape: scrape_all_games()'s processed_games
    scrape_log,     \* SpecScrape: the "Skipping"/"Processing" lines logged
    responses,      \* SpecFetch: what each request of the call will meet
    attempt,        \* SpecFetch: fetch_page()'s loop variable
    fpc,            \* SpecFetch: position in fetch_page()
    fetch_result,   \* SpecFetch: fetch_page()'s return value
    requests_made,  \* SpecFetch: calls of session.get so far
    slept           \* SpecFetch: the attempts after which time.sleep ran

scrapeVars == <<site, games_in_claims, spc, ti, scrape_games, processed_games,
                scrape_log>>
fetchVars == <<responses, attempt, fpc, fetch_result, requests_made, slept>>

vars == <<now, game, gpc, metrics, score, category, all_games, pc,
          million_games, scored, scored_games, hot_games, watch_games,
          avoid_games, exit_code, scrapeVars, fetchVars>>

gameVars == <<game, gpc, metrics, score, category>>
mainVars == <<all_games, pc, million_games, scored, scored_games,
              hot_games, watch_games, avoid_games, exit_code>>

---------------------------------------------------------------------------
(* Bounds of the model *)

MaxTiers == 2        \* longest exhaustively enumerated prize_tiers list
MaxGames == 3        \* longest scraped collection
MaxTicks == 2        \* clock ticks that may pass during one run
TicksPerDay == 2     \* clock resolution: ticks per calendar day

---------------------------------------------------------------------------
(* Exact rational arithmetic standing for Python float arithmetic *)

RECURSIVE GCD(_, _)
GCD(a, b) == IF b = 0 THEN a ELSE GCD(b, a % b)

Abs(x) == IF x < 0 THEN -x ELSE x

\* The rational n/d in lowest terms with a positive denominator (d # 0).
Norm(n, d) ==
    LET g == GCD(Abs(n), Abs(d))
        s == IF d < 0 THEN -1 ELSE 1
    IN  [n |-> (s * n) \div g, d |-> (s * d) \div g]

R(i) == [n |-> i, d |-> 1]

\* The result standing for a raised exception.
ZeroDivisionError == [n |-> 0, d |-> 0]

Raised(x) == x.d = 0

RAdd(a, b) ==
    IF Raised(a) \/ Raised(b) THEN ZeroDivisionError
    ELSE Norm(a.n * b.d + b.n * a.d, a.d * b.d)

RSub(a, b) ==
    IF Raised(a) \/ Raised(b) THEN ZeroDivisionError
    ELSE Norm(a.n * b.d - b.n * a.d, a.d * b.d)

RMul(a, b) ==
    IF Raised(a) \/ Raised(b) THEN ZeroDivisionError
    ELSE Norm(a.n * b.n, a.d * b.d)

\* Python's a / b: ZeroDivisionError when b is zero.
RDiv(a, b) ==
    IF Raised(a) \/ Raised(b) \/ b.n = 0 THEN ZeroDivisionError
    ELSE Norm(a.n * b.d, a.d * b.n)

RLt(a, b) == a.n * b.d < b.n * a.d
RLe(a, b) == a.n * b.d <= b.n * a.d
RGt(a, b) == RLt(b, a)
RGe(a, b) == RLe(b, a)

\* Python's two-argument min/max: the first argument wins a tie.
PyMin2(a, b) ==
    IF Raised(a) \/ Raised(b) THEN ZeroDivisionError
    ELSE IF RLt(b, a) THEN b ELSE a

PyMax2(a, b) ==
    IF Raised(a) \/ Raised(b) THEN ZeroDivisionError
    ELSE IF RGt(b, a) THEN b ELSE a

RECURSIVE SumSeq(_)
SumSeq(s) == IF s = <<>> THEN 0 ELSE Head(s) + SumSeq(Tail(s))

---------------------------------------------------------------------------
(* PrizeTier: [value, total, remaining] *)

PrizeTier(v, t, r) == [value |-> v, total |-> t, remaining |-> r]

\* percent_remaining without its guard on total.
percent_remaining_NoGuard(t) ==
    RMul(RDiv(R(t.remaining), R(t.total)), R(100))

percent_remaining(t) ==
    IF t.total = 0 THEN R(0)
    ELSE RMul(RDiv(R(t.remaining), R(t.total)), R(100))

is_million_plus(t) == t.value >= 1000000

is_break_even_tier(t, ticket_price) ==
    LET floor == ticket_price * 2
        ceiling == ticket_price * 10
    IN  floor <= t.value /\ t.value <= ceiling

\* is_small_win_tier with a digit dropped from its lower limit.
is_small_win_tier_From50(t) == 50 <= t.value /\ t.value <= 1000

is_small_win_tier(t) == 500 <= t.value /\ t.value <= 1000

is_medium_win_tier(t) == 2000 <= t.value /\ t.value <= 10000

---------------------------------------------------------------------------
(* GameData: [game_number, ticket_price, start_date, prize_tiers].         *)
(* start_date is <<>> (None) or <<s>>; a string s is [fmt, day]: the one   *)
(* date format it is written in ("" for the empty string, "other" for text *)
(* in no accepted format) and the calendar day it denotes.                 *)
(* An Optional[PrizeTier] is the tier's index in prize_tiers, None is 0.   *)

None == 0

ValueError == -1

\* A maximum search that keeps the last tier of the largest value.
PyMaxByValue_Last(tiers) ==
    LET RECURSIVE Go(_, _)
        Go(i, best) ==
            IF i > Len(tiers) THEN best
            ELSE IF tiers[i].value >= tiers[best].value THEN Go(i + 1, i)
            ELSE Go(i + 1, best)
    IN  IF tiers = <<>> THEN ValueError ELSE Go(2, 1)

\* max(tiers, key=lambda x: x.value): the first tier of the largest value;
\* ValueError on an empty list.
PyMaxByValue(tiers) ==
    LET RECURSIVE Go(_, _)
        Go(i, best) ==
            IF i > Len(tiers) THEN best
            ELSE IF tiers[i].value > tiers[best].value THEN Go(i + 1, i)
            ELSE Go(i + 1, best)
    IN  IF tiers = <<>> THEN ValueError ELSE Go(2, 1)

\* min(tiers, key=lambda x: x.value): the first tier of the smallest value;
\* ValueError on an empty list.
PyMinByValue(tiers) ==
    LET RECURSIVE Go(_, _)
        Go(i, best) ==
            IF i > Len(tiers) THEN best
            ELSE IF tiers[i].value < tiers[best].value THEN Go(i + 1, i)
            ELSE Go(i + 1, best)
    IN  IF tiers = <<>> THEN ValueError ELSE Go(2, 1)

\* get_top_prize without its empty-list guard.
get_top_prize_NoGuard(g) == PyMaxByValue(g.prize_tiers)

get_top_prize(g) ==
    IF g.prize_tiers = <<>> THEN None
    ELSE PyMaxByValue(g.prize_tiers)

get_bottom_prize(g) ==
    IF g.prize_tiers = <<>> THEN None
    ELSE PyMinByValue(g.prize_tiers)

get_million_plus_tiers(g) == SelectSeq(g.prize_tiers, is_million_plus)

get_break_even_tiers(g) ==
    LET Test(t) == is_break_even_tier(t, g.ticket_price)
    IN  SelectSeq(g.prize_tiers, Test)

get_small_win_tiers(g) == SelectSeq(g.prize_tiers, is_small_win_tier)

get_medium_win_tiers(g) == SelectSeq(g.prize_tiers, is_medium_win_tier)

\* sum(t.total for t in tiers), sum(t.remaining for t in tiers)
SumTotal(tiers) == SumSeq([i \in 1..Len(tiers) |-> tiers[i].total])
SumRemaining(tiers) == SumSeq([i \in 1..Len(tiers) |-> tiers[i].remaining])

\* top.percent_remaining for an Optional[PrizeTier] that is not None.
PctOf(g, idx) ==
    IF idx = ValueError THEN ZeroDivisionError
    ELSE percent_remaining(g.prize_tiers[idx])

\* The differential taken as bottom minus top.
calculate_differential_Reversed(g) ==
    LET top == get_top_prize(g)
        bottom == get_bottom_prize(g)
    IN  IF top = None \/ bottom = None THEN R(0)
        ELSE RSub(PctOf(g, bottom), PctOf(g, top))

calculate_differential(g) ==
    LET top == get_top_prize(g)
        bottom == get_bottom_prize(g)
    IN  IF top = None \/ bottom = None THEN R(0)
        ELSE RSub(PctOf(g, top), PctOf(g, bottom))

\* The group percentage as the average of the tiers' own percentages.
GroupPct_Averaged(tiers) ==
    LET RECURSIVE SumPct(_)
        SumPct(k) ==
            IF k = 0 THEN R(0)
            ELSE RAdd(SumPct(k - 1), percent_remaining(tiers[k]))
    IN  IF SumTotal(tiers) > 0 THEN RDiv(SumPct(Len(tiers)), R(Len(tiers)))
        ELSE R(0)

\* (sum(remaining) / sum(total) * 100) if sum(total) > 0 else 0
GroupPct(tiers) ==
    LET total == SumTotal(tiers)
        remaining == SumRemaining(tiers)
    IN  IF total > 0 THEN RMul(RDiv(R(remaining), R(total)), R(100))
        ELSE R(0)

calculate_million_health(g) ==
    LET million_tiers == get_million_plus_tiers(g)
    IN  IF million_tiers = <<>> THEN <<0, 0, R(0)>>
        ELSE <<SumRemaining(million_tiers),
               SumTotal(million_tiers),
               GroupPct(million_tiers)>>

calculate_loss_minimization_score(g) ==
    LET break_even == get_break_even_tiers(g)
        be_pct == IF break_even # <<>> THEN GroupPct(break_even) ELSE R(0)
        small_wins == get_small_win_tiers(g)
        sw_pct == IF small_wins # <<>> THEN GroupPct(small_wins) ELSE R(0)
        medium_wins == get_medium_win_tiers(g)
        mw_pct == IF medium_wins # <<>> THEN GroupPct(medium_wins) ELSE R(0)
    IN  RAdd(RAdd(RMul(be_pct, Norm(50, 100)), RMul(sw_pct, Norm(30, 100))),
             RMul(mw_pct, Norm(20, 100)))

calculate_bottom_depletion(g) ==
    LET bottom == get_bottom_prize(g)
    IN  IF bottom = None THEN R(0) ELSE PctOf(g, bottom)

\* has_million_plus with >= in place of >.
has_million_plus_AtLeastZero(g) == Len(get_million_plus_tiers(g)) >= 0

has_million_plus(g) == Len(get_million_plus_tiers(g)) > 0

\* The formats days_since_launch tries, in order.
DATE_FORMATS == <<"%b %d, %Y", "%m/%d/%Y", "%Y-%m-%d">>

\* datetime.strptime(s, fmt): <<day>>, or <<>> for ValueError.
strptime(s, fmt) == IF s.fmt = fmt THEN <<s.day>> ELSE <<>>

\* (datetime.now() - launch).days: whole days, rounded towards -infinity.
DaysBetween(clock, launch) == (clock - launch * TicksPerDay) \div TicksPerDay

\* Optional[int]: <<>> is None.
days_since_launch(g, clock) ==
    LET RECURSIVE Try(_)
        Try(k) ==
            IF k > Len(DATE_FORMATS) THEN <<>>
            ELSE LET launch == strptime(g.start_date[1], DATE_FORMATS[k])
                 IN  IF launch # <<>> THEN <<DaysBetween(clock, launch[1])>>
                     ELSE Try(k + 1)
    IN  IF g.start_date = <<>> \/ g.start_date[1].fmt = "" THEN <<>>
        ELSE Try(1)

---------------------------------------------------------------------------
(* Scorer *)

\* The normalisation without its clamp.
NormalizeDifferential_NoClamp(diff) ==
    RMul(RAdd(diff, R(30)), RDiv(R(100), R(60)))

\* max(0, min(100, (diff + 30) * (100/60)))
NormalizeDifferential(diff) ==
    PyMax2(R(0), PyMin2(R(100), RMul(RAdd(diff, R(30)), RDiv(R(100), R(60)))))

\* The step function with inclusive limits.
Freshness_Inclusive(days) ==
    IF days # <<>> THEN
        IF days[1] <= 30 THEN 100
        ELSE IF days[1] <= 90 THEN 75
        ELSE IF days[1] <= 180 THEN 50
        ELSE 25
    ELSE 50

\* The step function giving nothing to games of 180 days and more.
Freshness_OldIsZero(days) ==
    IF days # <<>> THEN
        IF days[1] < 30 THEN 100
        ELSE IF days[1] < 90 THEN 75
        ELSE IF days[1] < 180 THEN 50
        ELSE 0
    ELSE 50

Freshness(days) ==
    IF days # <<>> THEN
        IF days[1] < 30 THEN 100
        ELSE IF days[1] < 90 THEN 75
        ELSE IF days[1] < 180 THEN 50
        ELSE 25
    ELSE 50

\* The weights of million health and loss minimization exchanged.
WeightedScore_Swapped(million_pct, loss_min_score, diff_normalized, freshness) ==
    RAdd(RAdd(RAdd(RMul(million_pct, Norm(30, 100)),
                   RMul(loss_min_score, Norm(40, 100))),
              RMul(diff_normalized, Norm(20, 100))),
         RMul(R(freshness), Norm(10, 100)))

\* Freshness taken as a penalty instead of a bonus.
WeightedScore_FreshPenalty(million_pct, loss_min_score, diff_normalized, freshness) ==
    RSub(RAdd(RAdd(RMul(million_pct, Norm(40, 100)),
                   RMul(loss_min_score, Norm(30, 100))),
              RMul(diff_normalized, Norm(20, 100))),
         RMul(R(freshness), Norm(10, 100)))

WeightedScore(million_pct, loss_min_score, diff_normalized, freshness) ==
    RAdd(RAdd(RAdd(RMul(million_pct, Norm(40, 100)),
                   RMul(loss_min_score, Norm(30, 100))),
              RMul(diff_normalized, Norm(20, 100))),
         RMul(R(freshness), Norm(10, 100)))

\* The locals of calculate_composite_score and its result.
ScoreLocals(g, clock) ==
    LET million_pct == calculate_million_health(g)[3]
        loss_min_score == calculate_loss_minimization_score(g)
        diff == calculate_differential(g)
        diff_normalized == NormalizeDifferential(diff)
        days == days_since_launch(g, clock)
        freshness == Freshness(days)
    IN  [million_pct |-> million_pct, loss_min_score |-> loss_min_score,
         diff |-> diff, diff_normalized |-> diff_normalized,
         days |-> days, freshness |-> freshness,
         score |-> WeightedScore(million_pct, loss_min_score,
                                 diff_normalized, freshness)]

calculate_composite_score(g, clock) == ScoreLocals(g, clock).score

\* The first rule without its differential condition.
CategoryRules_NoDiff(million_pct, bottom_pct, diff) ==
    IF Raised(million_pct) \/ Raised(bottom_pct) \/ Raised(diff) THEN "EXC"
    ELSE IF RGe(million_pct, R(70)) THEN "HOT"
    ELSE IF RGt(million_pct, RAdd(bottom_pct, R(10))) THEN "HOT"
    ELSE IF RLt(million_pct, R(30)) THEN "AVOID"
    ELSE IF RLt(million_pct, RSub(bottom_pct, R(15))) THEN "AVOID"
    ELSE "WATCH"

\* The second rule with its margin subtracted instead of added.
CategoryRules_Minus10(million_pct, bottom_pct, diff) ==
    IF Raised(million_pct) \/ Raised(bottom_pct) \/ Raised(diff) THEN "EXC"
    ELSE IF RGe(million_pct, R(70)) /\ RGt(diff, R(0)) THEN "HOT"
    ELSE IF RGt(million_pct, RSub(bottom_pct, R(10))) THEN "HOT"
    ELSE IF RLt(million_pct, R(30)) THEN "AVOID"
    ELSE IF RLt(million_pct, RSub(bottom_pct, R(15))) THEN "AVOID"
    ELSE "WATCH"

CategoryRules(million_pct, bottom_pct, diff) ==
    IF Raised(million_pct) \/ Raised(bottom_pct) \/ Raised(diff) THEN "EXC"
    ELSE IF RGe(million_pct, R(70)) /\ RGt(diff, R(0)) THEN "HOT"
    ELSE IF RGt(million_pct, RAdd(bottom_pct, R(10))) THEN "HOT"
    ELSE IF RLt(million_pct, R(30)) THEN "AVOID"
    ELSE IF RLt(million_pct, RSub(bottom_pct, R(15))) THEN "AVOID"
    ELSE "WATCH"

categorize_game(g) ==
    LET million_pct == calculate_million_health(g)[3]
        bottom_pct == calculate_bottom_depletion(g)
        diff == calculate_differential(g)
    IN  CategoryRules(million_pct, bottom_pct, diff)

---------------------------------------------------------------------------
(* Inputs of the single-game evaluation.  GameData and PrizeTier check      *)
(* nothing on construction, so a game here may have no tiers, a tier with  *)
(* total 0 or more remaining than total, and a ticket price of 0.          *)

Today == 200         \* calendar day of the run

GameData(num, price, date, tiers) ==
    [game_number |-> num, ticket_price |-> price, start_date |-> date,
     prize_tiers |-> tiers]

DateString(fmt, day) == <<[fmt |-> fmt, day |-> day]>>

\* Prize values: below every group, break-even for a $5 ticket, small win
\* (and break-even for a $50 ticket), medium win, two million-plus values.
Values == {1, 10, 500, 2000, 1000000, 2000000}

\* <<remaining, total>>: empty print run, half, full, over-full.
Counts == {<<0, 0>>, <<1, 2>>, <<2, 2>>, <<3, 2>>}

Prices == {0, 5, 50}

Tiers == {PrizeTier(v, c[2], c[1]) : v \in Values, c \in Counts}

TierLists == UNION {[1..k -> Tiers] : k \in 0..MaxTiers}

\* Hand-picked prize_tiers lists on the thresholds of the scorer.
ExampleTiers ==
    { <<PrizeTier(2000000, 20, 9), PrizeTier(1000000, 24, 24),
        PrizeTier(1, 2, 1)>>,                          \* 75 / 50 / -5
      <<PrizeTier(1000000, 20, 14), PrizeTier(1, 2, 1)>>,      \* 70, diff 20
      <<PrizeTier(1000000, 20, 14), PrizeTier(1, 20, 14)>>,    \* 70, diff 0
      <<PrizeTier(1000000, 20, 12), PrizeTier(1, 2, 1)>>,      \* 60 = 50 + 10
      <<PrizeTier(1000000, 20, 4), PrizeTier(1, 2, 0)>>,       \* 20 > 0 + 10
      <<PrizeTier(1000000, 20, 6), PrizeTier(1, 20, 6)>>,      \* 30
      <<PrizeTier(1000000, 20, 7), PrizeTier(1, 2, 1)>>,       \* 35 = 50 - 15
      <<PrizeTier(1000000, 20, 8), PrizeTier(10, 20, 16),
        PrizeTier(500, 20, 8), PrizeTier(2000, 10, 2),
        PrizeTier(1, 20, 13)>>,                         \* every group
      <<PrizeTier(10, 60, 50), PrizeTier(20, 40, 30),
        PrizeTier(500, 100, 40), PrizeTier(2000, 50, 10)>>,
                                          \* groups at 80/100, 40/100, 10/50
      <<PrizeTier(1, 10, 10), PrizeTier(1000000, 5, 1)>>,      \* diff -80
      <<PrizeTier(1000000, 0, 6), PrizeTier(1, 2, 1)>>,        \* total 0
      <<PrizeTier(1000000, 2, 0), PrizeTier(1, 2, 2)>>,        \* 0 / 100
      <<PrizeTier(1000000, 2, 0), PrizeTier(1, 2, -1)>>,       \* remaining < 0
      <<PrizeTier(1000000, 2, 2), PrizeTier(1000000, 2, 1),
        PrizeTier(1, 2, 1), PrizeTier(1, 2, 2)>>,       \* shared top, bottom
      <<>> }

\* Days since launch on both sides of every freshness step.
Ages == {-1, 0, 29, 30, 89, 90, 179, 180}

StartDates ==
    {<<>>, DateString("", 0), DateString("other", Today)}
    \cup {DateString(DATE_FORMATS[k], Today - a) : k \in 1..3, a \in Ages}

\* Ticket prices and prize values on the edges of the tier ranges.
EdgePrices == {1, 5, 20, 30, 49, 50}

EdgeValues(p) ==
    {2 * p - 1, 2 * p, 10 * p, 10 * p + 1, 499, 500, 1000, 1001,
     1999, 2000, 10000, 10001, 999999, 1000000}

EdgeGames ==
    {GameData(1, p, <<>>, <<PrizeTier(v, 2, 1)>>) :
        p \in EdgePrices,
        v \in UNION {EdgeValues(q) : q \in EdgePrices}}

NoMetrics == <<>>
NoScore == <<>>

InitScrapeIdle ==
    /\ site = [ok |-> FALSE, claims |-> {}, tables |-> <<>>]
    /\ games_in_claims = {}
    /\ spc = "idle"
    /\ ti = 0
    /\ scrape_games = <<>>
    /\ processed_games = {}
    /\ scrape_log = <<>>

InitFetchIdle ==
    /\ responses = <<>>
    /\ attempt = 0
    /\ fpc = "idle"
    /\ fetch_result = <<>>
    /\ requests_made = 0
    /\ slept = <<>>

InitMainIdle ==
    /\ all_games = <<>>
    /\ pc = "idle"
    /\ million_games = <<>>
    /\ scored = <<>>
    /\ scored_games = <<>>
    /\ hot_games = <<>>
    /\ watch_games = <<>>
    /\ avoid_games = <<>>
    /\ exit_code = -1

InitGame ==
    /\ \/ /\ game \in {GameData(1, p, <<>>, t) : p \in Prices, t \in TierLists}
          /\ now = Today * TicksPerDay
       \/ /\ game \in {GameData(1, 5, d, t) : d \in StartDates, t \in ExampleTiers}
          /\ now \in {Today * TicksPerDay + k : k \in 0..(TicksPerDay - 1)}
       \/ /\ game \in EdgeGames
          /\ now = Today * TicksPerDay
    /\ gpc = "input"
    /\ metrics = NoMetrics
    /\ score = NoScore
    /\ category = ""
    /\ InitMainIdle
    /\ InitScrapeIdle
    /\ InitFetchIdle

---------------------------------------------------------------------------
(* Evaluation of one game: the element (g, score, category) of line 528    *)
(* and the metric reads of generate_game_card.                             *)

ScoreGame ==
    /\ gpc = "input"
    /\ score' = ScoreLocals(game, now)
    /\ gpc' = "scored"
    /\ UNCHANGED <<scrapeVars, fetchVars, now, game, metrics, category, mainVars>>

CategorizeGame ==
    /\ gpc = "scored"
    /\ category' = categorize_game(game)
    /\ gpc' = "categorized"
    /\ UNCHANGED <<scrapeVars, fetchVars, now, game, metrics, score, mainVars>>

\* The tier groups that count the tier at index i.
TierGroups(g, i) ==
    LET t == g.prize_tiers[i]
    IN  (IF is_million_plus(t) THEN {"million"} ELSE {})
        \cup (IF is_break_even_tier(t, g.ticket_price) THEN {"break_even"} ELSE {})
        \cup (IF is_small_win_tier(t) THEN {"small_win"} ELSE {})
        \cup (IF is_medium_win_tier(t) THEN {"medium_win"} ELSE {})

GameCard ==
    /\ gpc = "categorized"
    /\ metrics' = [top |-> get_top_prize(game),
                   bottom |-> get_bottom_prize(game),
                   million |-> calculate_million_health(game),
                   loss_min_score |-> calculate_loss_minimization_score(game),
                   bottom_pct |-> calculate_bottom_depletion(game),
                   diff |-> calculate_differential(game),
                   days |-> days_since_launch(game, now),
                   groups |-> [i \in 1..Len(game.prize_tiers) |->
                                  TierGroups(game, i)],
                   tier_pcts |-> [i \in 1..Len(game.prize_tiers) |->
                                     percent_remaining(game.prize_tiers[i])]]
    /\ gpc' = "done"
    /\ UNCHANGED <<scrapeVars, fetchVars, now, game, score, category, mainVars>>

NextGame == ScoreGame \/ CategorizeGame \/ GameCard

SpecGame == InitGame /\ [][NextGame]_vars

---------------------------------------------------------------------------
(* Ranking: list.sort(key=lambda x: x[1], reverse=True) and the category   *)
(* filters.  A scored entry (g, s, c) is the record [g, s, c].             *)

\* x placed behind every entry whose score is not smaller: equal scores keep
\* their order of arrival, as Python's stable sort with reverse=True does.
RECURSIVE InsertDescending(_, _)
InsertDescending(sorted, x) ==
    IF sorted = <<>> THEN <<x>>
    ELSE IF RGe(Head(sorted).s, x.s)
         THEN <<Head(sorted)>> \o InsertDescending(Tail(sorted), x)
         ELSE <<x>> \o sorted

RECURSIVE SortFrom(_, _)
SortFrom(sorted, rest) ==
    IF rest = <<>> THEN sorted
    ELSE SortFrom(InsertDescending(sorted, Head(rest)), Tail(rest))

\* An ascending stable sort followed by a reversal: equal scores end up in
\* the reverse of their input order.
RECURSIVE SortAscendingThenReverse(_)
SortAscendingThenReverse(entries) ==
    LET RECURSIVE Ins(_, _)
        Ins(sorted, x) ==
            IF sorted = <<>> THEN <<x>>
            ELSE IF RGt(Head(sorted).s, x.s)
                 THEN <<Head(sorted)>> \o Ins(Tail(sorted), x)
                 ELSE <<x>> \o sorted
        RECURSIVE Go(_, _)
        Go(sorted, rest) ==
            IF rest = <<>> THEN sorted
            ELSE Go(Ins(sorted, Head(rest)), Tail(rest))
    IN  Go(<<>>, entries)

SortByScoreDescending(entries) == SortFrom(<<>>, entries)

\* [(g, calculate_composite_score(g), categorize_game(g)) for g in games]
ScoreAll(games, clock) ==
    [i \in 1..Len(games) |->
        [g |-> games[i],
         s |-> calculate_composite_score(games[i], clock),
         c |-> categorize_game(games[i])]]

Pair(e) == [g |-> e.g, s |-> e.s]

Pairs(entries) == [i \in 1..Len(entries) |-> Pair(entries[i])]

IsHot(e) == e.c = "HOT"
IsWatch(e) == e.c = "WATCH"
IsAvoid(e) == e.c = "AVOID"
IsNotHot(e) == e.c # "HOT"

HotGames(entries) == Pairs(SelectSeq(entries, IsHot))

\* The WATCH filter taking everything that is not HOT.
WatchGames_NotHot(entries) == Pairs(SelectSeq(entries, IsNotHot))

WatchGames(entries) == Pairs(SelectSeq(entries, IsWatch))

AvoidGames(entries) == Pairs(SelectSeq(entries, IsAvoid))

---------------------------------------------------------------------------
(* Inputs of main(): the list scrape_all_games() returned.  Every game has *)
(* a ticket price above 0 and its own game number (its index here).        *)

\* HOT, fresh for one more day; no million-plus tier; WATCH; WATCH with the
\* same score; AVOID lifted by its break-even tier; WATCH with a low score.
Profiles ==
    { [price |-> 5, date |-> DateString("%b %d, %Y", Today - 29),
       tiers |-> <<PrizeTier(1000000, 2, 2), PrizeTier(1, 2, 1)>>],
      [price |-> 5, date |-> <<>>,
       tiers |-> <<PrizeTier(500, 2, 1), PrizeTier(1, 2, 2)>>],
      [price |-> 5, date |-> <<>>,
       tiers |-> <<PrizeTier(1000000, 2, 1), PrizeTier(1, 2, 1)>>],
      [price |-> 5, date |-> DateString("%Y-%m-%d", Today - 100),
       tiers |-> <<PrizeTier(1000000, 2, 1), PrizeTier(1, 2, 1)>>],
      [price |-> 5, date |-> DateString("%m/%d/%Y", Today - 10),
       tiers |-> <<PrizeTier(1000000, 2, 0), PrizeTier(50, 2, 2),
                   PrizeTier(1, 2, 2)>>],
      [price |-> 10, date |-> DateString("%b %d, %Y", Today - 200),
       tiers |-> <<PrizeTier(2000000, 2, 0), PrizeTier(1000000, 2, 2),
                   PrizeTier(1, 2, 1)>>] }

Collections ==
    UNION {[1..k -> Profiles] : k \in 0..MaxGames}

Numbered(col) ==
    [i \in 1..Len(col) |->
        GameData(i, col[i].price, col[i].date, col[i].tiers)]

FirstTick == Today * TicksPerDay
LastTick == FirstTick + TicksPerDay - 1 + MaxTicks

InitGameIdle ==
    /\ game = GameData(0, 0, <<>>, <<>>)
    /\ gpc = "idle"
    /\ metrics = NoMetrics
    /\ score = NoScore
    /\ category = ""

Init ==
    /\ all_games \in {Numbered(col) : col \in Collections}
    /\ now \in FirstTick..(FirstTick + TicksPerDay - 1)
    /\ pc = "start"
    /\ million_games = <<>>
    /\ scored = <<>>
    /\ scored_games = <<>>
    /\ hot_games = <<>>
    /\ watch_games = <<>>
    /\ avoid_games = <<>>
    /\ exit_code = -1
    /\ InitGameIdle
    /\ InitScrapeIdle
    /\ InitFetchIdle

---------------------------------------------------------------------------
(* main() *)

Running == pc \notin {"done", "exited"}

\* The wall clock advances while the program runs.
Tick ==
    /\ Running
    /\ now < LastTick
    /\ now' = now + 1
    /\ UNCHANGED <<scrapeVars, fetchVars, gameVars, mainVars>>

GetMillionPlusGames ==
    /\ pc = "start"
    /\ million_games' = SelectSeq(all_games, has_million_plus)
    /\ pc' = "filtered"
    /\ UNCHANGED <<scrapeVars, fetchVars, now, gameVars, all_games, scored, scored_games, hot_games,
                   watch_games, avoid_games, exit_code>>

ExitNoGames ==
    /\ pc = "filtered"
    /\ million_games = <<>>
    /\ exit_code' = 1
    /\ pc' = "exited"
    /\ UNCHANGED <<scrapeVars, fetchVars, now, gameVars, all_games, million_games, scored,
                   scored_games, hot_games, watch_games, avoid_games>>

MainSummary ==
    /\ pc = "filtered"
    /\ million_games # <<>>
    /\ scored' = SortByScoreDescending(ScoreAll(million_games, now))
    /\ pc' = "summarised"
    /\ UNCHANGED <<scrapeVars, fetchVars, now, gameVars, all_games, million_games, scored_games,
                   hot_games, watch_games, avoid_games, exit_code>>

GenerateReport ==
    /\ pc = "summarised"
    /\ LET sorted == SortByScoreDescending(ScoreAll(million_games, now))
       IN  /\ scored_games' = sorted
           /\ hot_games' = HotGames(sorted)
           /\ watch_games' = WatchGames(sorted)
           /\ avoid_games' = AvoidGames(sorted)
    /\ pc' = "reported"
    /\ UNCHANGED <<scrapeVars, fetchVars, now, gameVars, all_games, million_games, scored, exit_code>>

WriteReport ==
    /\ pc = "reported"
    /\ exit_code' = 0
    /\ pc' = "done"
    /\ UNCHANGED <<scrapeVars, fetchVars, now, gameVars, all_games, million_games, scored,
                   scored_games, hot_games, watch_games, avoid_games>>

Next ==
    \/ Tick
    \/ GetMillionPlusGames
    \/ ExitNoGames
    \/ MainSummary
    \/ GenerateReport
    \/ WriteReport

Spec == Init /\ [][Next]_vars

---------------------------------------------------------------------------
(* NCLotteryAnalyzer.scrape_all_games (SpecScrape) *)

\* Most tables on the prizes-remaining page.
MaxTables == 3

\* The game numbers that occur in the links of the page.
GameNumbers == {1, 2}

\* What the header row prints after "Game Number:": the number of the link,
\* or another one.
HeaderNumbers(n) == {n, 7}

\* The prize rows parse_game_section keeps: value > 0 and total > 0.
ParsedTiers == <<PrizeTier(1000000, 2, 1), PrizeTier(5, 2, 1)>>

\* A table of the page: link says whether it holds a /scratch-off/N/ link,
\* num is that N, header_num the number printed in the header row, tiers the
\* prize rows parse_game_section keeps (none when the section does not
\* parse), price and start what the game's own page gives
\* (get_game_details_from_page: price 0 when nothing is found or the page
\* cannot be fetched).
Table(link, num, header_num, tiers, price, start) ==
    [link |-> link, num |-> num, header_num |-> header_num, tiers |-> tiers,
     price |-> price, start |-> start]

PageTables ==
    {Table(FALSE, 0, 0, <<>>, 0, <<>>)}
    \cup {Table(TRUE, n, n, <<>>, 0, <<>>) : n \in GameNumbers}
    \cup UNION {{Table(TRUE, n, h, ParsedTiers, p, <<>>) :
                    h \in HeaderNumbers(n), p \in {0, 5}} : n \in GameNumbers}

\* parse_game_section(table): <<>> for None, else <<game>> with
\* ticket_price 0.0. The game's name stands for the table it came from (its
\* place k on the page), its url for the number in the table's link.
parse_game_section(t, k) ==
    IF t.tiers = <<>>
    THEN <<>>
    ELSE <<[game_number |-> t.header_num, game_name |-> k,
            ticket_price |-> 0, url |-> t.num, start_date |-> <<>>,
            prize_tiers |-> t.tiers]>>

\* The loop body with processed_games.add left out after a successful parse.
ScrapeStep_ForgetProcessed(st, claims, t, k) ==
    IF ~t.link THEN st
    ELSE IF t.num \in st.processed THEN st
    ELSE IF t.num \in claims
    THEN [st EXCEPT !.log = Append(@, [line |-> "Skipping", num |-> t.num,
                                       name |-> 0]),
                    !.processed = @ \cup {t.num}]
    ELSE LET game_data == parse_game_section(t, k)
         IN  IF game_data = <<>> THEN st
             ELSE LET g == [game_data[1] EXCEPT !.ticket_price = t.price,
                                                !.start_date = t.start]
                      logged == Append(st.log,
                                       [line |-> "Processing",
                                        num |-> g.game_number,
                                        name |-> g.game_name])
                  IN  [st EXCEPT !.log = logged,
                                 !.games = IF g.ticket_price > 0
                                           THEN Append(@, g) ELSE @]

\* One pass of the loop over all_tables, on the locals
\* st = [games, processed, log]; claims is self.games_in_claims.
ScrapeStep(st, claims, t, k) ==
    IF ~t.link THEN st
    ELSE IF t.num \in st.processed THEN st
    ELSE IF t.num \in claims
    THEN [st EXCEPT !.log = Append(@, [line |-> "Skipping", num |-> t.num,
                                       name |-> 0]),
                    !.processed = @ \cup {t.num}]
    ELSE LET game_data == parse_game_section(t, k)
         IN  IF game_data = <<>> THEN st
             ELSE LET g == [game_data[1] EXCEPT !.ticket_price = t.price,
                                                !.start_date = t.start]
                      logged == Append(st.log,
                                       [line |-> "Processing",
                                        num |-> g.game_number,
                                        name |-> g.game_name])
                  IN  [st EXCEPT !.processed = @ \cup {t.num},
                                 !.log = logged,
                                 !.games = IF g.ticket_price > 0
                                           THEN Append(@, g) ELSE @]

\* The site: ok says whether the prizes-remaining page can be fetched,
\* tables is what it holds, claims what get_games_in_claims_period returns
\* (the empty set when its own page cannot be fetched).
Sites ==
    {[ok |-> FALSE, claims |-> c, tables |-> <<>>] : c \in SUBSET GameNumbers}
    \cup {[ok |-> TRUE, claims |-> c, tables |-> ts] :
            c \in SUBSET GameNumbers,
            ts \in UNION {[1..k -> PageTables] : k \in 0..MaxTables}}

InitScrape ==
    /\ now = FirstTick
    /\ InitGameIdle
    /\ InitMainIdle
    /\ InitFetchIdle
    /\ site \in Sites
    /\ games_in_claims = {}
    /\ spc = "start"
    /\ ti = 0
    /\ scrape_games = <<>>
    /\ processed_games = {}
    /\ scrape_log = <<>>

\* Lines 383-396: the claims set, then the page; no page, return [].
FetchPrizesPage ==
    /\ spc = "start"
    /\ games_in_claims' = site.claims
    /\ spc' = IF site.ok THEN "loop" ELSE "returned"
    /\ UNCHANGED <<now, gameVars, mainVars, fetchVars, site, ti, scrape_games,
                   processed_games, scrape_log>>

\* Lines 398-431: the loop takes the next table.
ProcessTable ==
    /\ spc = "loop"
    /\ ti < Len(site.tables)
    /\ LET st == ScrapeStep([games |-> scrape_games,
                             processed |-> processed_games,
                             log |-> scrape_log],
                            games_in_claims, site.tables[ti + 1], ti + 1)
       IN  /\ scrape_games' = st.games
           /\ processed_games' = st.processed
           /\ scrape_log' = st.log
    /\ ti' = ti + 1
    /\ UNCHANGED <<now, gameVars, mainVars, fetchVars, site, games_in_claims,
                   spc>>

\* Line 433: the loop is over, return games.
ReturnGames ==
    /\ spc = "loop"
    /\ ti = Len(site.tables)
    /\ spc' = "returned"
    /\ UNCHANGED <<now, gameVars, mainVars, fetchVars, site, games_in_claims,
                   ti, scrape_games, processed_games, scrape_log>>

NextScrape ==
    \/ FetchPrizesPage
    \/ ProcessTable
    \/ ReturnGames

SpecScrape == InitScrape /\ [][NextScrape]_vars

---------------------------------------------------------------------------
(* NCLotteryAnalyzer.fetch_page (SpecFetch) *)

max_retries == 3

\* What a request can meet: a page, or one of the RequestExceptions of
\* session.get and raise_for_status.
Pages == {"page A", "page B"}
RequestException == {"Timeout", "ConnectionError", "HTTPError"}
Outcomes == Pages \cup RequestException

\* The retry test of line 224 made always true.
SleepAfterFailure_Always(a) == TRUE

\* Line 224: sleep after a failed attempt unless it was the last one.
SleepAfterFailure(a) == a < max_retries - 1

InitFetch ==
    /\ now = FirstTick
    /\ InitGameIdle
    /\ InitMainIdle
    /\ InitScrapeIdle
    /\ responses \in [1..max_retries -> Outcomes]
    /\ attempt = 0
    /\ fpc = "request"
    /\ fetch_result = <<>>
    /\ requests_made = 0
    /\ slept = <<>>

\* Lines 218-224: one pass of the loop up to the sleep. fetch_result is
\* <<>> while the call runs, <<"text", page>> or <<"None">> once it returned.
Request ==
    /\ fpc = "request"
    /\ attempt < max_retries
    /\ requests_made' = requests_made + 1
    /\ LET response == responses[attempt + 1]
       IN  IF response \in Pages
           THEN /\ fetch_result' = <<"text", response>>
                /\ fpc' = "returned"
                /\ attempt' = attempt
           ELSE /\ fetch_result' = fetch_result
                /\ IF SleepAfterFailure(attempt)
                   THEN fpc' = "sleep" /\ attempt' = attempt
                   ELSE fpc' = "request" /\ attempt' = attempt + 1
    /\ UNCHANGED <<now, gameVars, mainVars, scrapeVars, responses, slept>>

\* Line 225: time.sleep(self.delay * 2), then the next pass.
Sleep ==
    /\ fpc = "sleep"
    /\ slept' = Append(slept, attempt)
    /\ attempt' = attempt + 1
    /\ fpc' = "request"
    /\ UNCHANGED <<now, gameVars, mainVars, scrapeVars, responses,
                   fetch_result, requests_made>>

\* Line 226: range(max_retries) is used up.
ReturnNone ==
    /\ fpc = "request"
    /\ attempt = max_retries
    /\ fetch_result' = <<"None">>
    /\ fpc' = "returned"
    /\ UNCHANGED <<now, gameVars, mainVars, scrapeVars, responses, attempt,
                   requests_made, slept>>

NextFetch ==
    \/ Request
    \/ Sleep
    \/ ReturnNone

\* The call runs on: a request returns or raises within its timeout, the
\* sleep ends.
SpecFetch == InitFetch /\ [][NextFetch]_vars /\ WF_vars(NextFetch)

---------------------------------------------------------------------------
(* Properties of the single-game evaluation (SpecGame) *)

Evaluated == gpc = "done"

\* The condition of categorisation rule k as the specification lists them.
RuleHolds(k, m, b, d) ==
    IF k = 1 THEN RGe(m, R(70)) /\ RGt(d, R(0))
    ELSE IF k = 2 THEN RGt(m, RAdd(b, R(10)))
    ELSE IF k = 3 THEN RLt(m, R(30))
    ELSE IF k = 4 THEN RLt(m, RSub(b, R(15)))
    ELSE TRUE

FirstRule(m, b, d) ==
    CHOOSE k \in 1..5 :
        RuleHolds(k, m, b, d) /\ \A j \in 1..(k - 1) : ~RuleHolds(j, m, b, d)

RuleLabel == <<"HOT", "HOT", "AVOID", "AVOID", "WATCH">>

\* C1: categorize_game returns exactly one of HOT, WATCH, AVOID, the label of
\* the first rule, in the order 1..5, whose condition the game's
\* (million_pct, bottom_depletion, differential) meets; 75 / 50 / -5 is HOT.
C1_FirstMatchWins ==
    Evaluated =>
        LET m == metrics.million[3]
            b == metrics.bottom_pct
            d == metrics.diff
        IN  /\ category \in {"HOT", "WATCH", "AVOID"}
            /\ category = RuleLabel[FirstRule(m, b, d)]
            /\ (m = R(75) /\ b = R(50) /\ d = R(-5)) => category = "HOT"

C1_Witness ==
    /\ Evaluated
    /\ metrics.million[3] = R(75)
    /\ metrics.bottom_pct = R(50)
    /\ metrics.diff = R(-5)
    /\ category = "HOT"

\* C4: a game with no tiers raises nowhere: top and bottom prize are None,
\* million health is (0, 0, 0), loss minimization, differential and bottom
\* depletion are 0, the composite score is a number, the category is AVOID.
C4_EmptyGameNeutral ==
    (Evaluated /\ game.prize_tiers = <<>>) =>
        /\ metrics.top = None
        /\ metrics.bottom = None
        /\ metrics.million = <<0, 0, R(0)>>
        /\ metrics.loss_min_score = R(0)
        /\ metrics.diff = R(0)
        /\ metrics.bottom_pct = R(0)
        /\ ~Raised(score.score)
        /\ category = "AVOID"

C4_Witness ==
    /\ Evaluated
    /\ game.prize_tiers = <<>>
    /\ metrics.top = None
    /\ category = "AVOID"

\* C6 as claimed: every tier of every game is counted in at most one of the
\* four tier groups, whatever the ticket price.
C6_GroupsDisjoint ==
    Evaluated =>
        \A i \in 1..Len(game.prize_tiers) : Cardinality(metrics.groups[i]) <= 1

\* C6 as amended: the million-plus, small-win and medium-win ranges are
\* pairwise disjoint for every ticket price, and the break-even range is
\* disjoint from all three when the ticket price is below 50.
C6_GroupsDisjointBelow50 ==
    Evaluated =>
        \A i \in 1..Len(game.prize_tiers) :
            /\ Cardinality(metrics.groups[i] \ {"break_even"}) <= 1
            /\ game.ticket_price < 50 => Cardinality(metrics.groups[i]) <= 1

C6_Witness ==
    /\ Evaluated
    /\ game.ticket_price = 49
    /\ \E i \in 1..Len(game.prize_tiers) :
          /\ game.prize_tiers[i].value = 490
          /\ metrics.groups[i] = {"break_even"}

\* The normalised differential as the specification defines it.
ClampedDifferential(d) ==
    LET raw == RMul(RAdd(d, R(30)), Norm(100, 60))
    IN  IF RLt(raw, R(0)) THEN R(0)
        ELSE IF RGt(raw, R(100)) THEN R(100)
        ELSE raw

\* Days since launch as the specification defines them: absent for an
\* absent start date or one in none of the accepted formats.
AcceptedFormats == {DATE_FORMATS[k] : k \in 1..Len(DATE_FORMATS)}

LaunchAge ==
    IF game.start_date = <<>> THEN <<>>
    ELSE IF game.start_date[1].fmt \notin AcceptedFormats THEN <<>>
    ELSE <<(now - game.start_date[1].day * TicksPerDay) \div TicksPerDay>>

AgeStep(age) ==
    IF age = <<>> THEN 50
    ELSE IF age[1] < 30 THEN 100
    ELSE IF age[1] < 90 THEN 75
    ELSE IF age[1] < 180 THEN 50
    ELSE 25

\* C7: the composite score is million_pct*0.40 + loss_min*0.30 +
\* diff_norm*0.20 + freshness*0.10 over the game's own metrics, and the four
\* weights sum to 1.
C7_WeightedSum ==
    Evaluated =>
        /\ RMul(score.score, R(100)) =
              RAdd(RAdd(RMul(R(40), metrics.million[3]),
                        RMul(R(30), metrics.loss_min_score)),
                   RAdd(RMul(R(20), ClampedDifferential(metrics.diff)),
                        R(10 * AgeStep(LaunchAge))))
        /\ WeightedScore(R(1), R(1), R(1), 1) = R(1)

C7_Witness ==
    /\ Evaluated
    /\ RGt(metrics.million[3], R(0))
    /\ RGt(metrics.loss_min_score, R(0))
    /\ RGt(score.diff_normalized, R(0))
    /\ score.freshness = 75
    /\ score.score = Norm(1259, 30)

PctSamples == {R(0), R(20), R(50), R(75), R(100), R(150)}

FreshnessSamples == {25, 50, 75, 100}

\* C8: with the other three components held fixed, a larger million_pct never
\* gives a smaller composite score, and neither does a larger freshness.
C8_Monotone ==
    Evaluated =>
        /\ \A m2 \in PctSamples :
              LET s2 == WeightedScore(m2, score.loss_min_score,
                                      score.diff_normalized, score.freshness)
              IN  /\ RLe(score.million_pct, m2) => RLe(score.score, s2)
                  /\ RLe(m2, score.million_pct) => RLe(s2, score.score)
        /\ \A f2 \in FreshnessSamples :
              LET s2 == WeightedScore(score.million_pct, score.loss_min_score,
                                      score.diff_normalized, f2)
              IN  /\ score.freshness <= f2 => RLe(score.score, s2)
                  /\ f2 <= score.freshness => RLe(s2, score.score)

C8_Witness ==
    /\ Evaluated
    /\ \E m2 \in PctSamples :
          /\ RLt(score.million_pct, m2)
          /\ RLt(score.score,
                 WeightedScore(m2, score.loss_min_score,
                               score.diff_normalized, score.freshness))
    /\ \E f2 \in FreshnessSamples :
          /\ score.freshness < f2
          /\ RLt(score.score,
                 WeightedScore(score.million_pct, score.loss_min_score,
                               score.diff_normalized, f2))

\* C9: the normalised differential of the scorer is (differential + 30) *
\* (100/60) clamped to [0, 100]: 0 from -30 down, 100 from 30 up, 50 at 0.
C9_ClampedDifferential ==
    Evaluated =>
        LET d == metrics.diff
            dn == score.diff_normalized
        IN  /\ dn = ClampedDifferential(d)
            /\ RLe(d, R(-30)) => dn = R(0)
            /\ RGe(d, R(30)) => dn = R(100)
            /\ d = R(0) => dn = R(50)
            /\ RLe(R(0), dn) /\ RLe(dn, R(100))

C9_Witness ==
    /\ Evaluated
    /\ metrics.diff = R(50)
    /\ score.diff_normalized = R(100)

\* C10: freshness is 100 below 30 days since launch, 75 below 90, 50 below
\* 180, 25 from 180 on, and 50 when the start date is absent or in none of
\* the accepted formats.
C10_FreshnessSteps ==
    Evaluated =>
        /\ score.days = LaunchAge
        /\ score.freshness = AgeStep(LaunchAge)

C10_Witness ==
    /\ Evaluated
    /\ score.days = <<30>>
    /\ score.freshness = 75

\* Sums of the print counts of the tiers of `game` at the indices in I.
RECURSIVE TotalOver(_)
TotalOver(I) ==
    IF I = {} THEN 0
    ELSE LET i == CHOOSE x \in I : TRUE
         IN  game.prize_tiers[i].total + TotalOver(I \ {i})

RECURSIVE RemainingOver(_)
RemainingOver(I) ==
    IF I = {} THEN 0
    ELSE LET i == CHOOSE x \in I : TRUE
         IN  game.prize_tiers[i].remaining + RemainingOver(I \ {i})

\* remaining / total * 100 over the whole group I, 0 for no print run.
SharePct(I) ==
    IF I = {} \/ TotalOver(I) = 0 THEN R(0)
    ELSE Norm(100 * RemainingOver(I), TotalOver(I))

\* remaining / total * 100 of the tier at index i, 0 for no print run.
TierPct(i) ==
    LET t == game.prize_tiers[i]
    IN  IF t.total = 0 THEN R(0) ELSE Norm(100 * t.remaining, t.total)

TierIdx == 1..Len(game.prize_tiers)

ValueBetween(lo, hi) ==
    {i \in TierIdx : lo <= game.prize_tiers[i].value
                     /\ game.prize_tiers[i].value <= hi}

MillionIdx == {i \in TierIdx : game.prize_tiers[i].value >= 1000000}

\* C11: the loss minimization score is 0.50*be_pct + 0.30*sw_pct +
\* 0.20*mw_pct, each percentage taken over the summed remaining and total of
\* its group (2x..10x ticket price, 500..1000, 2000..10000) and 0 for an empty
\* group or a summed total of 0.
C11_LossMinimizationBlend ==
    Evaluated =>
        LET be == SharePct(ValueBetween(2 * game.ticket_price,
                                        10 * game.ticket_price))
            sw == SharePct(ValueBetween(500, 1000))
            mw == SharePct(ValueBetween(2000, 10000))
        IN  RMul(metrics.loss_min_score, R(100)) =
               RAdd(RMul(R(50), be), RAdd(RMul(R(30), sw), RMul(R(20), mw)))

\* Groups at 80/100 (over two tiers of unequal print runs), 40/100 and 10/50.
C11_Witness ==
    /\ Evaluated
    /\ Cardinality(ValueBetween(2 * game.ticket_price,
                                10 * game.ticket_price)) = 2
    /\ SharePct(ValueBetween(2 * game.ticket_price,
                             10 * game.ticket_price)) = R(80)
    /\ SharePct(ValueBetween(500, 1000)) = R(40)
    /\ SharePct(ValueBetween(2000, 10000)) = R(20)
    /\ metrics.loss_min_score = R(56)

\* C12 as claimed: the loss minimization score of every game lies in 0..100.
C12_LossScoreInRange ==
    Evaluated =>
        /\ RLe(R(0), metrics.loss_min_score)
        /\ RLe(metrics.loss_min_score, R(100))

\* C13: the differential is the percent remaining of a tier of the largest
\* value minus that of a tier of the smallest value, with its sign, and 0 for
\* a game without tiers; [$1 10/10, $1,000,000 1/5] gives -80.
C13_Differential ==
    Evaluated =>
        /\ game.prize_tiers = <<>> => metrics.diff = R(0)
        /\ game.prize_tiers # <<>> =>
              /\ metrics.top \in TierIdx /\ metrics.bottom \in TierIdx
              /\ \A i \in TierIdx :
                    /\ game.prize_tiers[i].value
                          <= game.prize_tiers[metrics.top].value
                    /\ game.prize_tiers[i].value
                          >= game.prize_tiers[metrics.bottom].value
              /\ metrics.diff =
                    RSub(TierPct(metrics.top), TierPct(metrics.bottom))
        /\ game.prize_tiers = <<PrizeTier(1, 10, 10), PrizeTier(1000000, 5, 1)>>
              => metrics.diff = R(-80)

C13_Witness ==
    /\ Evaluated
    /\ game.prize_tiers = <<PrizeTier(1, 10, 10), PrizeTier(1000000, 5, 1)>>
    /\ metrics.top = 2
    /\ metrics.bottom = 1
    /\ metrics.diff = R(-80)

\* The first index among the tiers of the largest and of the smallest value.
FirstOfLargest ==
    CHOOSE i \in TierIdx :
        /\ \A j \in TierIdx :
              game.prize_tiers[j].value <= game.prize_tiers[i].value
        /\ \A j \in 1..(i - 1) :
              game.prize_tiers[j].value < game.prize_tiers[i].value

FirstOfSmallest ==
    CHOOSE i \in TierIdx :
        /\ \A j \in TierIdx :
              game.prize_tiers[j].value >= game.prize_tiers[i].value
        /\ \A j \in 1..(i - 1) :
              game.prize_tiers[j].value > game.prize_tiers[i].value

\* C14: among tiers sharing the largest value the top prize is the first in
\* the collection, among tiers sharing the smallest value the bottom prize is
\* the first, and differential and bottom depletion are those tiers' numbers.
C14_FirstTierWinsTies ==
    (Evaluated /\ game.prize_tiers # <<>>) =>
        /\ metrics.top = FirstOfLargest
        /\ metrics.bottom = FirstOfSmallest
        /\ metrics.diff = RSub(TierPct(FirstOfLargest), TierPct(FirstOfSmallest))
        /\ metrics.bottom_pct = TierPct(FirstOfSmallest)

C14_Witness ==
    /\ Evaluated
    /\ metrics.top \in TierIdx
    /\ metrics.bottom \in TierIdx
    /\ metrics.top # metrics.bottom
    /\ \E i \in TierIdx :
          /\ i > metrics.top
          /\ game.prize_tiers[i].value = game.prize_tiers[metrics.top].value
          /\ TierPct(i) # TierPct(metrics.top)
    /\ \E i \in TierIdx :
          /\ i > metrics.bottom
          /\ game.prize_tiers[i].value = game.prize_tiers[metrics.bottom].value
          /\ TierPct(i) # TierPct(metrics.bottom)

\* C15: no percentage divides by zero: a tier with total 0 has 0 percent
\* remaining, and million health is the summed remaining and total of the
\* tiers valued 1,000,000 or more with percent 0 for a summed total of 0 or
\* no such tier.
C15_NoDivisionByZero ==
    Evaluated =>
        /\ \A i \in TierIdx :
              /\ ~Raised(metrics.tier_pcts[i])
              /\ metrics.tier_pcts[i] = TierPct(i)
              /\ game.prize_tiers[i].total = 0 => metrics.tier_pcts[i] = R(0)
        /\ metrics.million =
              <<RemainingOver(MillionIdx), TotalOver(MillionIdx),
                SharePct(MillionIdx)>>
        /\ ~Raised(metrics.loss_min_score)
        /\ ~Raised(metrics.diff)
        /\ ~Raised(metrics.bottom_pct)
        /\ ~Raised(score.score)

C15_Witness ==
    /\ Evaluated
    /\ \E i \in TierIdx :
          /\ game.prize_tiers[i].value = 1000000
          /\ game.prize_tiers[i].total = 0
          /\ game.prize_tiers[i].remaining = 6
          /\ metrics.tier_pcts[i] = R(0)
    /\ metrics.million = <<6, 0, R(0)>>

CountsNonNegative ==
    \A i \in TierIdx :
        game.prize_tiers[i].remaining >= 0 /\ game.prize_tiers[i].total >= 0

CountsWithinPrintRun ==
    \A i \in TierIdx :
        /\ 0 <= game.prize_tiers[i].remaining
        /\ game.prize_tiers[i].remaining <= game.prize_tiers[i].total

\* C19: a game whose tiers all have remaining >= 0 and total >= 0 is HOT only
\* with more than 10 percent of its million-plus prizes remaining; without a
\* million-plus tier, or with none of those prizes remaining, it is not HOT.
C19_HotNeedsMillionPrizes ==
    (Evaluated /\ CountsNonNegative) =>
        /\ category = "HOT" => RGt(SharePct(MillionIdx), R(10))
        /\ (MillionIdx = {} \/ RemainingOver(MillionIdx) = 0)
              => category # "HOT"

\* HOT by the second rule alone, below the 70 percent of the first.
C19_Witness ==
    /\ Evaluated
    /\ CountsNonNegative
    /\ category = "HOT"
    /\ RLt(SharePct(MillionIdx), R(70))
    /\ RGt(SharePct(MillionIdx), R(10))

\* C20: the composite score of a game whose tiers all have
\* 0 <= remaining <= total lies between 2.5 and 100.
C20_ScoreRange ==
    (Evaluated /\ CountsWithinPrintRun) =>
        /\ RLe(Norm(5, 2), score.score)
        /\ RLe(score.score, R(100))

\* The lower limit is taken: nothing left to win in a game of 180 days.
C20_Witness ==
    /\ Evaluated
    /\ CountsWithinPrintRun
    /\ game.prize_tiers # <<>>
    /\ score.freshness = 25
    /\ score.score = Norm(5, 2)

---------------------------------------------------------------------------
(* Properties of main() (Spec) *)

Summarised == pc \in {"summarised", "reported", "done"}
Reported == pc \in {"reported", "done"}

\* The place of game g in the list handed to the ranking step.
InputPos(g) == CHOOSE k \in 1..Len(million_games) : million_games[k] = g

\* ranked holds exactly the input games, by score descending, games of equal
\* score in their input order.
IsStableRanking(ranked) ==
    /\ Len(ranked) = Len(million_games)
    /\ \A k \in 1..Len(million_games) :
          \E i \in 1..Len(ranked) : ranked[i].g = million_games[k]
    /\ \A i, j \in 1..Len(ranked) :
          i < j =>
             /\ RGe(ranked[i].s, ranked[j].s)
             /\ ranked[i].s = ranked[j].s =>
                   InputPos(ranked[i].g) < InputPos(ranked[j].g)

\* C2: both ranking steps order the scored games by composite score
\* descending and keep games of equal score in their input order.
C2_StableDescending ==
    /\ Summarised => IsStableRanking(scored)
    /\ Reported => IsStableRanking(scored_games)

C2_Witness ==
    /\ Reported
    /\ \E i, j \in 1..Len(scored_games) :
          /\ i < j
          /\ scored_games[i].s = scored_games[j].s
          /\ scored_games[i].g.start_date # scored_games[j].g.start_date
    /\ \E i, j \in 1..Len(scored_games) :
          /\ i < j
          /\ InputPos(scored_games[i].g) > InputPos(scored_games[j].g)

\* The place of game g in the full ranking of the report.
RankPos(g) == CHOOSE k \in 1..Len(scored_games) : scored_games[k].g = g

InList(list, e) == \E i \in 1..Len(list) : list[i] = Pair(e)

KeepsRankOrder(list) ==
    \A i, j \in 1..Len(list) : i < j => RankPos(list[i].g) < RankPos(list[j].g)

\* C3: every ranked game is in exactly one of the HOT, WATCH and AVOID
\* lists, the three lists hold nothing else, and each lists its games in the
\* order of the full ranking.
C3_CategoriesPartition ==
    Reported =>
        /\ \A k \in 1..Len(scored_games) :
              LET e == scored_games[k]
              IN  Cardinality({n \in {"HOT", "WATCH", "AVOID"} :
                      \/ n = "HOT" /\ InList(hot_games, e)
                      \/ n = "WATCH" /\ InList(watch_games, e)
                      \/ n = "AVOID" /\ InList(avoid_games, e)}) = 1
        /\ Len(hot_games) + Len(watch_games) + Len(avoid_games)
              = Len(scored_games)
        /\ KeepsRankOrder(hot_games)
        /\ KeepsRankOrder(watch_games)
        /\ KeepsRankOrder(avoid_games)

C3_Witness ==
    /\ Reported
    /\ Len(avoid_games) >= 1
    /\ \E i, j \in 1..Len(watch_games) :
          /\ i < j
          /\ RankPos(watch_games[i].g) + 1 < RankPos(watch_games[j].g)

\* C5 as claimed: the scoring pass of generate_html_report gives every game
\* the score the pass of main gave it, hence the same ranking.
C5_SameScoresBothPasses ==
    Reported => scored_games = scored

\* A game with at least one tier valued 1,000,000 or more.
HasMillionTier(g) ==
    \E i \in 1..Len(g.prize_tiers) : g.prize_tiers[i].value >= 1000000

NoMillionGameScraped ==
    \A k \in 1..Len(all_games) : ~HasMillionTier(all_games[k])

\* C16: the run ends with a non-zero status and without a report exactly
\* when no scraped game has a tier valued 1,000,000 or more; otherwise the
\* games scored and reported are exactly the scraped games with such a tier.
C16_ExitIffNoMillionGame ==
    /\ pc = "exited" =>
          /\ exit_code = 1
          /\ NoMillionGameScraped
          /\ scored = <<>> /\ scored_games = <<>>
    /\ pc = "done" => exit_code = 0
    /\ pc \notin {"exited", "done"} => exit_code = -1
    /\ Summarised =>
          /\ ~NoMillionGameScraped
          /\ \A i \in 1..Len(million_games) : HasMillionTier(million_games[i])
          /\ \A i \in 1..Len(scored) : HasMillionTier(scored[i].g)
          /\ \A k \in 1..Len(all_games) :
                HasMillionTier(all_games[k]) =>
                   \E i \in 1..Len(scored) : scored[i].g = all_games[k]
    /\ Reported =>
          /\ \A i \in 1..Len(scored_games) : HasMillionTier(scored_games[i].g)
          /\ \A k \in 1..Len(all_games) :
                HasMillionTier(all_games[k]) =>
                   \E i \in 1..Len(scored_games) :
                      scored_games[i].g = all_games[k]

\* Games were scraped, none has a million-plus tier, the run exits with 1.
C16_Witness ==
    /\ pc = "exited"
    /\ exit_code = 1
    /\ Len(all_games) >= 2
    /\ scored_games = <<>>

---------------------------------------------------------------------------
(* Properties of scrape_all_games (SpecScrape) *)

\* The number in the link of the table a logged line is about.
HandledNumber(e) ==
    IF e.line = "Skipping" THEN e.num ELSE site.tables[e.name].num

\* The tables before place j whose section parses and that carry number n.
ParsedBefore(j, n) ==
    {i \in 1..(j - 1) :
        /\ site.tables[i].link
        /\ site.tables[i].num = n
        /\ site.tables[i].tiers # <<>>}

\* C17: every game in games has ticket_price > 0 and a link number outside
\* the claims-period set, no two games come from the same link number, a
\* number is skipped for claims or parsed at most once, and a table whose
\* section does not parse leaves a later table with the same number to be
\* processed.
C17_ScrapedGames ==
    /\ \A i \in 1..Len(scrape_games) :
          /\ scrape_games[i].ticket_price > 0
          /\ scrape_games[i].url \notin games_in_claims
          /\ scrape_games[i].url = site.tables[scrape_games[i].game_name].num
    /\ \A i, j \in 1..Len(scrape_games) :
          scrape_games[i].url = scrape_games[j].url => i = j
    /\ \A i, j \in 1..Len(scrape_log) :
          HandledNumber(scrape_log[i]) = HandledNumber(scrape_log[j])
             => i = j
    /\ spc = "returned" /\ ~site.ok => scrape_games = <<>>
    /\ spc = "returned" /\ site.ok =>
          \A j \in 1..Len(site.tables) :
             LET t == site.tables[j]
             IN  /\ t.link
                 /\ t.tiers # <<>>
                 /\ t.price > 0
                 /\ t.num \notin games_in_claims
                 /\ ParsedBefore(j, t.num) = {}
                 => \E i \in 1..Len(scrape_games) :
                       scrape_games[i].game_name = j

\* Three tables carry one number: the first does not parse, the second does
\* and is kept, the third is passed over.
C17_Witness ==
    /\ spc = "returned"
    /\ Len(site.tables) = 3
    /\ \A j \in 1..3 : site.tables[j].link /\ site.tables[j].num = 1
    /\ site.tables[1].tiers = <<>>
    /\ site.tables[2].tiers # <<>>
    /\ site.tables[3].tiers # <<>> /\ site.tables[3].price > 0
    /\ Len(scrape_games) = 1
    /\ scrape_games[1].game_name = 2
    /\ Len(scrape_log) = 1

---------------------------------------------------------------------------
(* Properties of fetch_page (SpecFetch) *)

Returned == fpc = "returned"

\* The first attempt (counted from 0) that meets a page; max_retries when
\* none does.
RECURSIVE FirstSuccessFrom(_)
FirstSuccessFrom(a) ==
    IF a >= max_retries THEN max_retries
    ELSE IF responses[a + 1] \in Pages THEN a
    ELSE FirstSuccessFrom(a + 1)

FirstSuccess == FirstSuccessFrom(0)

\* What holds at every point of a call of fetch_page.
FetchSafe ==
    /\ requests_made <= max_retries
    /\ \A i \in 1..Len(slept) :
          /\ slept[i] = i - 1
          /\ slept[i] < max_retries - 1
          /\ responses[slept[i] + 1] \in RequestException
    /\ ~Returned => fetch_result = <<>>
    /\ Returned =>
          /\ fetch_result # <<>>
          /\ fetch_result = <<"None">> <=> FirstSuccess = max_retries
          /\ FirstSuccess = max_retries =>
                /\ requests_made = max_retries
                /\ Len(slept) = max_retries - 1
          /\ FirstSuccess < max_retries =>
                /\ fetch_result = <<"text", responses[FirstSuccess + 1]>>
                /\ requests_made = FirstSuccess + 1
                /\ Len(slept) = FirstSuccess

\* Once returned, nothing more is requested and no sleep follows.
FetchStopsAtReturn ==
    [][Returned => /\ requests_made' = requests_made
                   /\ slept' = slept
                   /\ fetch_result' = fetch_result]_vars

\* C18: fetch_page returns after at most 3 requests; it returns the text of
\* the first request that succeeds and requests nothing after it, returns
\* None only when all 3 requests failed, and sleeps only after a failed
\* request that is not the last.
C18_FetchTerminates ==
    /\ []FetchSafe
    /\ FetchStopsAtReturn
    /\ <>Returned

\* All three requests failed: None is returned after two sleeps.
C18_Witness ==
    /\ Returned
    /\ fetch_result = <<"None">>
    /\ requests_made = 3
    /\ slept = <<0, 1>>

===========================================================================
